---------------------------- MODULE Spec2Model ----------------------------
(***************************************************************************)
(* Model of the pREST client: PrestApiClient (accessors table() / query()  *)
(* and their factory methods) and ChainedQuery (builder methods and        *)
(* execute()), from src/src/api/prest.ts.                                  *)
(*                                                                         *)
(* Strings are sequences of atoms.  An atom is either one character that   *)
(* some operation of the code treats specially ("." "," "&" "?" "=" ":"    *)
(* "$" " " "/" "-") or a run of characters that every operation passes     *)
(* through unchanged (letters, digits, "_").  Splitting, joining,          *)
(* template concatenation and percent-encoding work on these sequences as  *)
(* the JavaScript operations work on the characters.                       *)
(***************************************************************************)
EXTENDS Integers, Sequences, FiniteSets

\* ------------------------------------------------------------------ bounds
\* builder calls made on one ChainedQuery
MaxCalls == 2
\* execute() calls made on one ChainedQuery
MaxExec == 1
\* client.table(..).<factory>() / client.query(..).<factory>() calls made
MaxQueries == 1
\* atoms of an identifier given to table() or query()
MaxIdLen == 4
\* ChainedQuery instances alive side by side
MaxInstances == 2
\* operation calls made on the Table() accessor of client.ts
MaxTableCalls == 2
\* execute() calls made on one ChainedQuery that is executed again
MaxReplays == 3

\* ------------------------------------------------------------ JS strings

RECURSIVE Concat(_)
\* template literal / += : the concatenation of a sequence of strings
Concat(ss) == IF ss = <<>> THEN <<>> ELSE Head(ss) \o Concat(Tail(ss))

RECURSIVE Join(_, _)
\* Array.prototype.join(sep) on an array of strings
Join(ss, sep) ==
  IF ss = <<>> THEN <<>>
  ELSE IF Len(ss) = 1 THEN ss[1]
  ELSE ss[1] \o sep \o Join(Tail(ss), sep)

\* String.prototype.includes(a), a one atom
Includes(s, a) == \E k \in DOMAIN s : s[k] = a

RECURSIVE SplitFrom(_, _, _)
\* the pieces of s at separator a, cur being the piece under construction
SplitFrom(s, a, cur) ==
  IF s = <<>> THEN <<cur>>
  ELSE IF Head(s) = a THEN <<cur>> \o SplitFrom(Tail(s), a, <<>>)
  ELSE SplitFrom(Tail(s), a, Append(cur, Head(s)))

\* String.prototype.split(a): every piece between separators, empty ones kept
Split(s, a) == SplitFrom(s, a, <<>>)

\* String.prototype.startsWith(a)
StartsWith(s, a) == s # <<>> /\ s[1] = a

\* one character outside A-Z a-z 0-9 - _ . ! ~ * ' ( ) becomes its %XX escape
EscapeAtom(a) ==
  CASE a = "," -> "%2C"
    [] a = " " -> "%20"
    [] a = ":" -> "%3A"
    [] a = "&" -> "%26"
    [] a = "=" -> "%3D"
    [] a = "$" -> "%24"
    [] a = "/" -> "%2F"
    [] a = "?" -> "%3F"
    [] a = "%" -> "%25"
    [] OTHER   -> a

\* percent-encoding of a string, character by character
Escape(s) == [k \in DOMAIN s |-> EscapeAtom(s[k])]

\* ------------------------------------------------------------- JS values
\* A value is [t |-> its type, v |-> its text]: a number carries its decimal
\* text, a boolean "true" or "false".
Str(s) == [t |-> "string", v |-> s]
Num(s) == [t |-> "number", v |-> s]
Bool(s) == [t |-> "boolean", v |-> s]
Undefined == [t |-> "undefined", v |-> <<>>]
Null == [t |-> "null", v |-> <<>>]

\* ToString of the language: String(value), `${value}`
ToString(x) ==
  CASE x.t = "undefined" -> <<"undefined">>
    [] x.t = "null"      -> <<"null">>
    [] OTHER             -> x.v

\* ToBoolean of the language: if (value), !value, value || other
Truthy(x) ==
  CASE x.t = "string"  -> x.v # <<>>
    [] x.t = "number"  -> x.v # <<"0">>
    [] x.t = "boolean" -> x.v = <<"true">>
    [] OTHER           -> FALSE

\* value === 0
IsZero(x) == x.t = "number" /\ x.v = <<"0">>

\* an encoding that leaves every character as it is
encodeURIComponentNone(x) == ToString(x)

\* encodeURIComponent(value): ToString, then percent-encoding
encodeURIComponent(x) == Escape(ToString(x))

\* querystring.stringify({ key: value }) for one key: the escaped key, "=",
\* and the escaped text of a string, number or boolean (any other value
\* gives the empty text)
stringify(key, x) ==
  Escape(key) \o <<"=">> \o
    (IF x.t \in {"string", "number", "boolean"} THEN Escape(x.v) ELSE <<>>)

\* values.join(','): undefined and null elements give the empty text
ArrayJoin(xs) ==
  Join([k \in DOMAIN xs |->
          IF xs[k].t \in {"undefined", "null"} THEN <<>> ELSE ToString(xs[k])],
       <<",">>)

\* ---------------------------------------------------------- ChainedQuery
\* class ChainedQuery: the fields of one instance
ChainedQuery(baseUrl, reqType, body) ==
  [ baseUrl           |-> baseUrl,
    reqType           |-> reqType,
    body              |-> body,
    rendererArg       |-> "json",
    sqlFunctions      |-> <<>>,
    chainedOperations |-> <<>> ]

\* a push that puts the new clause in front of the earlier ones
PushOperationFront(q, clause) ==
  [q EXCEPT !.chainedOperations = <<clause>> \o @]

\* this.chainedOperations.push(clause)
PushOperation(q, clause) ==
  [q EXCEPT !.chainedOperations = Append(@, clause)]

\* this.sqlFunctions.push(token)
PushFunction(q, token) ==
  [q EXCEPT !.sqlFunctions = Append(@, token)]

\* a page() that writes its clause into the base URL
pageRebases(q, pageNumber) ==
  [q EXCEPT !.baseUrl = @ \o <<"?">> \o stringify(<<"_page">>, pageNumber)]

page(q, pageNumber) == PushOperation(q, stringify(<<"_page">>, pageNumber))

pageSize(q, size) == PushOperation(q, stringify(<<"_page_size">>, size))

\* a select() that hands its fields to the aggregate directive
selectMerged(q, fields) == PushFunction(q, Escape(fields))

select(q, fields) == PushOperation(q, stringify(<<"_select">>, Str(fields)))

\* field is a string or undefined
count(q, field) ==
  LET fieldValue == IF Truthy(field) THEN field ELSE Str(<<"*">>)
  IN  PushOperation(q, stringify(<<"_count">>, fieldValue))

countFirst(q, flag) == PushOperation(q, stringify(<<"_count_first">>, flag))

\* a renderer() that emits the directive and keeps the decode mode
rendererKeepsMode(q, rendererArg) ==
  PushOperation(q, stringify(<<"_renderer">>, Str(<<rendererArg>>)))

\* a renderer() that takes the earlier _renderer clauses out of the list
rendererReplaces(q, rendererArg) ==
  [q EXCEPT
     !.chainedOperations =
        Append(SelectSeq(@, LAMBDA c : ~(Len(c) >= 1 /\ c[1] = "_renderer")),
               stringify(<<"_renderer">>, Str(<<rendererArg>>))),
     !.rendererArg = rendererArg]

renderer(q, rendererArg) ==
  [PushOperation(q, stringify(<<"_renderer">>, Str(<<rendererArg>>)))
     EXCEPT !.rendererArg = rendererArg]

distinct(q, flag) == PushOperation(q, stringify(<<"_distinct">>, flag))

\* an order() that marks every field without "-" with a "+"
orderSigned(q, fields) ==
  LET orderFields ==
        [k \in DOMAIN fields |->
           IF StartsWith(fields[k], "-") THEN fields[k] ELSE <<"+">> \o fields[k]]
  IN  PushOperation(q, stringify(<<"_order">>, Str(Join(orderFields, <<",">>))))

\* fields: a sequence of strings
order(q, fields) ==
  LET orderFields ==
        [k \in DOMAIN fields |->
           IF StartsWith(fields[k], "-") THEN fields[k] ELSE fields[k]]
  IN  PushOperation(q, stringify(<<"_order">>, Str(Join(orderFields, <<",">>))))

groupBy(q, fields) ==
  PushOperation(q, stringify(<<"_groupby">>, Str(Join(fields, <<",">>))))

eq(q, field, value) ==
  PushOperation(q, field \o <<"=">> \o encodeURIComponent(value))

gt(q, field, value) ==
  PushOperation(q, field \o <<"=", "$", "gt", ".">> \o encodeURIComponent(value))

gte(q, field, value) ==
  PushOperation(q, field \o <<"=", "$", "gte", ".">> \o encodeURIComponent(value))

lt(q, field, value) ==
  PushOperation(q, field \o <<"=", "$", "lt", ".">> \o encodeURIComponent(value))

lte(q, field, value) ==
  PushOperation(q, field \o <<"=", "$", "lte", ".">> \o encodeURIComponent(value))

ne(q, field, value) ==
  PushOperation(q, field \o <<"=", "$", "ne", ".">> \o encodeURIComponent(value))

\* an in() that percent-encodes the joined values
inEscaped(q, field, values) ==
  PushOperation(q, field \o <<"=", "$", "in", ".">> \o Escape(ArrayJoin(values)))

in(q, field, values) ==
  PushOperation(q, field \o <<"=", "$", "in", ".">> \o ArrayJoin(values))

notIn(q, field, values) ==
  PushOperation(q, field \o <<"=", "$", "nin", ".">> \o ArrayJoin(values))

null(q, field) == PushOperation(q, field \o <<"=", "$", "null">>)

notNull(q, field) == PushOperation(q, field \o <<"=", "$", "notnull">>)

like(q, field, value) ==
  PushOperation(q, field \o <<"=", "$", "like", ".">> \o encodeURIComponent(value))

ilike(q, field, value) ==
  PushOperation(q, field \o <<"=", "$", "ilike", ".">> \o encodeURIComponent(value))

notLike(q, field, value) ==
  PushOperation(q, field \o <<"=", "$", "notlike", ".">> \o encodeURIComponent(value))

sum(q, field) == PushFunction(q, <<"sum", ":">> \o field)

avg(q, field) == PushFunction(q, <<"avg", ":">> \o field)

max(q, field) == PushFunction(q, <<"max", ":">> \o field)

min(q, field) == PushFunction(q, <<"min", ":">> \o field)

stdDev(q, field) == PushFunction(q, <<"stddev", ":">> \o field)

variance(q, field) == PushFunction(q, <<"variance", ":">> \o field)

\* a having() that adds its clause to the aggregate functions
havingAggregate(q, groupFunc, field, condition, value) ==
  PushFunction(q, <<"having", ":">> \o groupFunc \o <<":">> \o field \o <<":">>
                    \o condition \o <<":">> \o encodeURIComponent(value))

having(q, groupFunc, field, condition, value) ==
  PushOperation(q, <<"having", ":">> \o groupFunc \o <<":">> \o field \o <<":">>
                     \o condition \o <<":">> \o encodeURIComponent(value))

\* a filterRange() that tests its bounds for truthiness only
filterRangeTruthy(q, field, start, end) ==
  LET q1 == IF Truthy(start)
            THEN PushOperation(q, field \o <<"=", "$", "gte", ".">>
                                    \o encodeURIComponent(start))
            ELSE q
  IN  IF Truthy(end)
      THEN PushOperation(q1, field \o <<"=", "$", "lte", ".">>
                               \o encodeURIComponent(end))
      ELSE q1

filterRange(q, field, start, end) ==
  LET q1 == IF IsZero(start) \/ Truthy(start)
            THEN PushOperation(q, field \o <<"=", "$", "gte", ".">>
                                    \o encodeURIComponent(start))
            ELSE q
  IN  IF IsZero(end) \/ Truthy(end)
      THEN PushOperation(q1, field \o <<"=", "$", "lte", ".">>
                               \o encodeURIComponent(end))
      ELSE q1

join(q, joinType, jointable, localField, operator, foreignField) ==
  PushOperation(q, <<"_join", "=">> \o joinType \o <<":">> \o jointable \o <<":">>
                     \o localField \o <<":">> \o operator \o <<":">> \o foreignField)

jsonbFilter(q, field, jsonField, value) ==
  PushOperation(q, field \o <<"->>">> \o jsonField \o <<":", "jsonb", "=">>
                     \o encodeURIComponent(value))

\* a textSearch() that writes the language part whatever the language is
textSearchAnyLanguage(q, field, tsq, language) ==
  PushOperation(q, field \o <<"$">> \o ToString(language)
                     \o <<":", "tsquery", "=">> \o encodeURIComponent(Str(tsq)))

\* language is a string or undefined
textSearch(q, field, tsq, language) ==
  PushOperation(q, field
                     \o (IF Truthy(language) THEN <<"$">> \o ToString(language) ELSE <<>>)
                     \o <<":", "tsquery", "=">> \o encodeURIComponent(Str(tsq)))

\* an execute() that emits the aggregate directive before the clauses
ChainedUrlSelectFirst(q) ==
  LET ops == q.chainedOperations
      sel == IF Len(q.sqlFunctions) > 0
             THEN << <<"_select", "=">> \o Join(q.sqlFunctions, <<",">>) >>
             ELSE <<>>
      all == sel \o ops
  IN  IF all = <<>> THEN q.baseUrl ELSE q.baseUrl \o <<"?">> \o Join(all, <<"&">>)

\* execute(), lines 806-818: the URL the request is sent to
ChainedUrl(q) ==
  LET ops == q.chainedOperations
      withOps ==
        IF Len(ops) > 0
        THEN q.baseUrl \o <<"?">> \o ops[1]
               \o Concat([k \in 1..(Len(ops) - 1) |-> <<"&">> \o ops[k + 1]])
        ELSE q.baseUrl
  IN  IF Len(q.sqlFunctions) > 0
      THEN withOps \o <<"&", "_select", "=">> \o Join(q.sqlFunctions, <<",">>)
      ELSE withOps

\* a decode choice that looks at the renderer only
DecodeByRenderer(reqType, rendererArg) ==
  IF rendererArg = "json" THEN "json" ELSE "text"

\* execute(), lines 825-833: how the response is decoded
Decode(reqType, rendererArg) ==
  IF reqType = "export" THEN "blob"
  ELSE IF rendererArg = "json" THEN "json"
  ELSE "text"

\* ---------------------------------------------------------- PrestApiClient
\* options.base_url and options.authHeader: opaque texts the code never parses
base_url == <<"BASE">>
authHeader == "AUTH"

\* a resolution without the default schema for an identifier without "."
ResolveTableNoDefault(name) ==
  IF Includes(name, ".")
  THEN LET parts == Split(name, ".")
       IN  [ schemaName |-> IF parts[1] # <<>> THEN parts[1] ELSE <<"public">>,
             tableName  |-> parts[2] ]
  ELSE [ schemaName |-> <<>>, tableName |-> name ]

\* a resolution that keeps an empty left part as the schema
ResolveTableKeepEmpty(name) ==
  IF Includes(name, ".")
  THEN LET parts == Split(name, ".")
       IN  [ schemaName |-> parts[1], tableName |-> parts[2] ]
  ELSE [ schemaName |-> <<"public">>, tableName |-> name ]

\* table(), lines 1153-1158: schema and table of a non-empty identifier
ResolveTable(name) ==
  IF Includes(name, ".")
  THEN LET parts == Split(name, ".")
       IN  [ schemaName |-> IF parts[1] # <<>> THEN parts[1] ELSE <<"public">>,
             tableName  |-> parts[2] ]
  ELSE [ schemaName |-> <<"public">>, tableName |-> name ]

\* query(), lines 1232-1237: path and script of a non-empty identifier
ResolveQuery(name) ==
  IF Includes(name, ".")
  THEN LET parts == Split(name, ".")
       IN  [ path  |-> IF parts[1] # <<>> THEN parts[1] ELSE name,
             sPath |-> parts[2] ]
  ELSE [ path |-> <<>>, sPath |-> name ]

\* a table() without the check of its argument
tableUnchecked(cl, tableName) ==
  IF ~cl THEN [error |-> "Client not initialized", a |-> <<>>, b |-> <<>>]
  ELSE LET r == ResolveTable(tableName.v)
       IN  [error |-> "", a |-> r.schemaName, b |-> r.tableName]

\* table(tableName): the error it throws (<<>> when none) and the schema and
\* table its factory methods close over; tableName is a string or undefined
table(cl, tableName) ==
  IF ~cl THEN [error |-> "Client not initialized", a |-> <<>>, b |-> <<>>]
  ELSE IF ~Truthy(tableName)
  THEN [error |-> "table name is required", a |-> <<>>, b |-> <<>>]
  ELSE LET r == ResolveTable(tableName.v)
       IN  [error |-> "", a |-> r.schemaName, b |-> r.tableName]

\* query(sPath): as table(), for a stored script
query(cl, sPath) ==
  IF ~cl THEN [error |-> "Client not initialized", a |-> <<>>, b |-> <<>>]
  ELSE IF ~Truthy(sPath)
  THEN [error |-> "script name is required", a |-> <<>>, b |-> <<>>]
  ELSE LET r == ResolveQuery(sPath.v)
       IN  [error |-> "", a |-> r.path, b |-> r.sPath]

\* the factory methods of the object table() returns
list(acc) ==
  ChainedQuery(base_url \o <<"/">> \o acc.a \o <<"/">> \o acc.b, "get", Null)

show(acc) ==
  ChainedQuery(base_url \o <<"/", "show", "/">> \o acc.a \o <<"/">> \o acc.b,
               "get", Null)

export(acc, data) ==
  ChainedQuery(base_url \o <<"/", "export", "/">> \o acc.a \o <<"/">> \o acc.b,
               "export", data)

insert(acc, data) ==
  ChainedQuery(base_url \o <<"/">> \o acc.a \o <<"/">> \o acc.b, "post", data)

batchInsert(acc, data) ==
  ChainedQuery(base_url \o <<"/", "batch", "/">> \o acc.a \o <<"/">> \o acc.b,
               "post", data)

update(acc, data) ==
  ChainedQuery(base_url \o <<"/">> \o acc.a \o <<"/">> \o acc.b, "put", data)

delete(acc) ==
  ChainedQuery(base_url \o <<"/">> \o acc.a \o <<"/">> \o acc.b, "delete", Null)

\* the factory methods of the object query() returns
queryList(acc) ==
  ChainedQuery(base_url \o <<"/", "_queries", "/">> \o acc.a \o <<"/">> \o acc.b,
               "get", Null)

queryExport(acc, data) ==
  ChainedQuery(base_url \o <<"/", "_queries", "/", "export", "/">>
                 \o acc.a \o <<"/">> \o acc.b,
               "export", data)

\* JSON.stringify(body): the JSON text of an object or array, "null" for null
JSONstringify(x) ==
  CASE x.t = "object" -> <<"{">> \o x.v \o <<"}">>
    [] x.t = "array"  -> <<"[">> \o x.v \o <<"]">>
    [] x.t = "null"   -> <<"null">>
    [] x.t = "string" -> <<"\"">> \o x.v \o <<"\"">>
    [] OTHER          -> x.v

NoBody == [sent |-> FALSE, text |-> <<>>]

\* transport methods that all serialize the body they are handed
FetchAlwaysBody(method, url, body) ==
  [ verb |-> CASE method = "get" -> "GET" [] method = "put" -> "PUT"
               [] method = "delete" -> "DELETE" [] OTHER -> "POST",
    url |-> url,
    body |-> [sent |-> TRUE, text |-> JSONstringify(body)],
    headers |-> {<<"Authorization", authHeader>>} ]

\* createClient(), lines 882-959: the fetch() call each transport method makes
Fetch(method, url, body) ==
  CASE method = "get" ->
         [ verb |-> "GET", url |-> url, body |-> NoBody,
           headers |-> {<<"Authorization", authHeader>>} ]
    [] method = "export" ->
         [ verb |-> "POST", url |-> url,
           body |-> [sent |-> TRUE, text |-> JSONstringify(body)],
           headers |-> {<<"Content-Type", "application/json">>,
                        <<"Accept", "text/csv">>,
                        <<"Authorization", authHeader>>} ]
    [] method = "post" ->
         [ verb |-> "POST", url |-> url,
           body |-> [sent |-> TRUE, text |-> JSONstringify(body)],
           headers |-> {<<"Content-Type", "application/json">>,
                        <<"Authorization", authHeader>>} ]
    [] method = "put" ->
         [ verb |-> "PUT", url |-> url,
           body |-> [sent |-> TRUE, text |-> JSONstringify(body)],
           headers |-> {<<"Content-Type", "application/json">>,
                        <<"Authorization", authHeader>>} ]
    [] method = "delete" ->
         [ verb |-> "DELETE", url |-> url, body |-> NoBody,
           headers |-> {<<"Authorization", authHeader>>} ]

\* createClient(): the message each transport method throws on !response.ok
NotOkMessage(method, statusText) ==
  CASE method = "get"    -> <<"Failed to fetch data: ", statusText>>
    [] method = "export" -> <<"Failed to export data: ", statusText>>
    [] method = "post"   -> <<"Failed to insert data: ", statusText>>
    [] method = "put"    -> <<"Failed to update data: ", statusText>>
    [] method = "delete" -> <<"Failed to delete data: ", statusText>>

\* getHttpClientMethod(method): the transport method, or the error thrown
getHttpClientMethod(cl, method) ==
  IF ~cl THEN [error |-> "Client not initialized", fn |-> ""]
  ELSE IF method \in {"get", "post", "put", "delete", "export"}
  THEN [error |-> "", fn |-> method]
  ELSE [error |-> "Invalid HTTP method", fn |-> ""]

\* ------------------------------------------------------------------ state
VARIABLES
  client,   \* PrestApiClient.client is set (the transport methods exist)
  calls,    \* the accessor + factory calls made, with their outcome (history)
  qs,       \* the ChainedQuery instances, in creation order
  hist,     \* per instance: the builder calls made on it, in order (history)
  execs,    \* the execute() calls, in call order
  net       \* the fetch() calls made, in call order

vars == <<client, calls, qs, hist, execs, net>>

\* a createClient() that is suspended before it assigns this.client
createClientSuspended == FALSE

\* createClient(), lines 878-963: whether this.client is assigned when the
\* call returns to the constructor.  An async function runs without
\* interruption up to its first await, and the body has none: the assignment
\* of line 882 is done
createClient == TRUE

\* the constructor, lines 870-873: it stores the options and calls
\* createClient()
Init ==
  /\ client = createClient
  /\ calls = <<>>
  /\ qs = <<>>
  /\ hist = <<>>
  /\ execs = <<>>
  /\ net = <<>>

\* --------------------------------------------------------------- inputs
Idents == { Undefined, Str(<<>>), Str(<<"products">>) }

Rows == { [t |-> "object", v |-> <<"row1">>] }

RowArrays == { [t |-> "array", v |-> <<"row1", ",", "row2">>] }

\* ------------------------------------------------ accessor + factory calls
\* One action is the whole chain client.table(id).<factory>(...) or
\* client.query(id).<factory>(...): acc is what the accessor call gives (it
\* throws when acc.error is set), q the instance the factory constructs, n
\* the number of such calls made at most.
CanCreate(n) == Len(calls) < n

\* the log of accessor + factory calls after one more
Logged(acc, f, id, data) ==
  Append(calls, [ f |-> f, id |-> id, data |-> data, error |-> acc.error,
                  made |-> IF acc.error # "" THEN 0 ELSE Len(qs) + 1 ])

\* the instances after the call: one more unless the accessor threw
Made(acc, q) == IF acc.error # "" THEN qs ELSE Append(qs, q)

\* the builder history after the call
MadeHist(acc) == IF acc.error # "" THEN hist ELSE Append(hist, <<>>)

TableList(ids, n) ==
  \E id \in ids :
    LET acc == table(client, id)
    IN  /\ CanCreate(n)
        /\ calls' = Logged(acc, "list", id, Null)
        /\ qs' = Made(acc, list(acc))
        /\ hist' = MadeHist(acc)
        /\ UNCHANGED <<client, execs, net>>

TableShow(ids, n) ==
  \E id \in ids :
    LET acc == table(client, id)
    IN  /\ CanCreate(n)
        /\ calls' = Logged(acc, "show", id, Null)
        /\ qs' = Made(acc, show(acc))
        /\ hist' = MadeHist(acc)
        /\ UNCHANGED <<client, execs, net>>

TableExport(ids, rows, n) ==
  \E id \in ids, data \in rows :
    LET acc == table(client, id)
    IN  /\ CanCreate(n)
        /\ calls' = Logged(acc, "export", id, data)
        /\ qs' = Made(acc, export(acc, data))
        /\ hist' = MadeHist(acc)
        /\ UNCHANGED <<client, execs, net>>

TableInsert(ids, rows, n) ==
  \E id \in ids, data \in rows :
    LET acc == table(client, id)
    IN  /\ CanCreate(n)
        /\ calls' = Logged(acc, "insert", id, data)
        /\ qs' = Made(acc, insert(acc, data))
        /\ hist' = MadeHist(acc)
        /\ UNCHANGED <<client, execs, net>>

TableBatchInsert(ids, rows, n) ==
  \E id \in ids, data \in rows :
    LET acc == table(client, id)
    IN  /\ CanCreate(n)
        /\ calls' = Logged(acc, "batchInsert", id, data)
        /\ qs' = Made(acc, batchInsert(acc, data))
        /\ hist' = MadeHist(acc)
        /\ UNCHANGED <<client, execs, net>>

TableUpdate(ids, rows, n) ==
  \E id \in ids, data \in rows :
    LET acc == table(client, id)
    IN  /\ CanCreate(n)
        /\ calls' = Logged(acc, "update", id, data)
        /\ qs' = Made(acc, update(acc, data))
        /\ hist' = MadeHist(acc)
        /\ UNCHANGED <<client, execs, net>>

TableDelete(ids, n) ==
  \E id \in ids :
    LET acc == table(client, id)
    IN  /\ CanCreate(n)
        /\ calls' = Logged(acc, "delete", id, Null)
        /\ qs' = Made(acc, delete(acc))
        /\ hist' = MadeHist(acc)
        /\ UNCHANGED <<client, execs, net>>

QueryList(ids, n) ==
  \E id \in ids :
    LET acc == query(client, id)
    IN  /\ CanCreate(n)
        /\ calls' = Logged(acc, "queryList", id, Null)
        /\ qs' = Made(acc, queryList(acc))
        /\ hist' = MadeHist(acc)
        /\ UNCHANGED <<client, execs, net>>

QueryExport(ids, rows, n) ==
  \E id \in ids, data \in rows :
    LET acc == query(client, id)
    IN  /\ CanCreate(n)
        /\ calls' = Logged(acc, "queryExport", id, data)
        /\ qs' = Made(acc, queryExport(acc, data))
        /\ hist' = MadeHist(acc)
        /\ UNCHANGED <<client, execs, net>>

\* ------------------------------------------------------------ builder calls
\* a ChainedQuery as constructed, to read off what one call emits
Fresh == ChainedQuery(<<>>, "get", Null)

\* a builder call can be made on instance i
CanCall(i) == i \in DOMAIN qs /\ Len(hist[i]) < MaxCalls

\* the instances after a builder call on instance i: F is the method with
\* its arguments
Called(i, F(_)) == [qs EXCEPT ![i] = F(@)]

\* the builder history after that call: the method, the arguments it was
\* called with (for renderer() the one argument itself), and the clauses and
\* aggregate tokens the call emits
Noted(i, m, arg, F(_)) ==
  [hist EXCEPT ![i] =
     Append(@, [ m   |-> m,
                 arg |-> arg,
                 ops |-> F(Fresh).chainedOperations,
                 fns |-> F(Fresh).sqlFunctions ])]

\* the arguments the builder calls are made with
Fields == { <<"price">> }
FilterFields == { <<"price">>, <<"unit", " ", "price">> }
Scalars == { Str(<<"a", " ", "b">>), Num(<<"5">>) }
Patterns == { Str(<<"%", "a">>) }
Lists ==
  { <<Num(<<"1">>), Num(<<"2">>), Num(<<"3">>)>>,
    <<Str(<<"a", " ", "b">>), Str(<<"c", "&", "d">>)>> }
Renderers == { "json", "xml" }
CountFields == { Undefined, Str(<<"id">>) }
FieldLists == { << <<"-", "price">>, <<"name">> >> }
Languages == { Undefined, Str(<<>>), Str(<<"portuguese">>) }
Ranges ==
  { <<Num(<<"0">>), Undefined>>, <<Undefined, Num(<<"0">>)>>,
    <<Undefined, Null>>, <<Str(<<>>), Num(<<"5">>)>>,
    <<Num(<<"1">>), Num(<<"5">>)>> }

\* a page() whose clause lands in the clause list of every instance
PageShared(i) ==
  \E n \in { Num(<<"1">>) } :
    /\ CanCall(i)
    /\ qs' = [j \in DOMAIN qs |-> page(qs[j], n)]
    /\ hist' = Noted(i, "page", <<n>>, LAMBDA q : page(q, n))
    /\ UNCHANGED <<client, calls, execs, net>>

Page(i) ==
  \E n \in { Num(<<"1">>) } :
    /\ CanCall(i)
    /\ qs' = Called(i, LAMBDA q : page(q, n))
    /\ hist' = Noted(i, "page", <<n>>, LAMBDA q : page(q, n))
    /\ UNCHANGED <<client, calls, execs, net>>

PageSize(i) ==
  \E n \in { Num(<<"10">>) } :
    /\ CanCall(i)
    /\ qs' = Called(i, LAMBDA q : pageSize(q, n))
    /\ hist' = Noted(i, "pageSize", <<n>>, LAMBDA q : pageSize(q, n))
    /\ UNCHANGED <<client, calls, execs, net>>

Select(i) ==
  \E f \in { <<"id", ",", "name">> } :
    /\ CanCall(i)
    /\ qs' = Called(i, LAMBDA q : select(q, f))
    /\ hist' = Noted(i, "select", <<f>>, LAMBDA q : select(q, f))
    /\ UNCHANGED <<client, calls, execs, net>>

Count(i) ==
  \E f \in CountFields :
    /\ CanCall(i)
    /\ qs' = Called(i, LAMBDA q : count(q, f))
    /\ hist' = Noted(i, "count", <<f>>, LAMBDA q : count(q, f))
    /\ UNCHANGED <<client, calls, execs, net>>

CountFirst(i) ==
  \E b \in { Bool(<<"true">>) } :
    /\ CanCall(i)
    /\ qs' = Called(i, LAMBDA q : countFirst(q, b))
    /\ hist' = Noted(i, "countFirst", <<b>>, LAMBDA q : countFirst(q, b))
    /\ UNCHANGED <<client, calls, execs, net>>

Renderer(i) ==
  \E r \in Renderers :
    /\ CanCall(i)
    /\ qs' = Called(i, LAMBDA q : renderer(q, r))
    /\ hist' = Noted(i, "renderer", r, LAMBDA q : renderer(q, r))
    /\ UNCHANGED <<client, calls, execs, net>>

Distinct(i) ==
  \E b \in { Bool(<<"true">>) } :
    /\ CanCall(i)
    /\ qs' = Called(i, LAMBDA q : distinct(q, b))
    /\ hist' = Noted(i, "distinct", <<b>>, LAMBDA q : distinct(q, b))
    /\ UNCHANGED <<client, calls, execs, net>>

Order(i) ==
  \E fs \in FieldLists :
    /\ CanCall(i)
    /\ qs' = Called(i, LAMBDA q : order(q, fs))
    /\ hist' = Noted(i, "order", <<fs>>, LAMBDA q : order(q, fs))
    /\ UNCHANGED <<client, calls, execs, net>>

GroupBy(i) ==
  \E fs \in FieldLists :
    /\ CanCall(i)
    /\ qs' = Called(i, LAMBDA q : groupBy(q, fs))
    /\ hist' = Noted(i, "groupBy", <<fs>>, LAMBDA q : groupBy(q, fs))
    /\ UNCHANGED <<client, calls, execs, net>>

Eq(i, fields, values) ==
  \E f \in fields, v \in values :
    /\ CanCall(i)
    /\ qs' = Called(i, LAMBDA q : eq(q, f, v))
    /\ hist' = Noted(i, "eq", <<f, v>>, LAMBDA q : eq(q, f, v))
    /\ UNCHANGED <<client, calls, execs, net>>

Gt(i) ==
  \E f \in FilterFields, v \in Scalars :
    /\ CanCall(i)
    /\ qs' = Called(i, LAMBDA q : gt(q, f, v))
    /\ hist' = Noted(i, "gt", <<f, v>>, LAMBDA q : gt(q, f, v))
    /\ UNCHANGED <<client, calls, execs, net>>

Gte(i) ==
  \E f \in FilterFields, v \in Scalars :
    /\ CanCall(i)
    /\ qs' = Called(i, LAMBDA q : gte(q, f, v))
    /\ hist' = Noted(i, "gte", <<f, v>>, LAMBDA q : gte(q, f, v))
    /\ UNCHANGED <<client, calls, execs, net>>

Lt(i) ==
  \E f \in FilterFields, v \in Scalars :
    /\ CanCall(i)
    /\ qs' = Called(i, LAMBDA q : lt(q, f, v))
    /\ hist' = Noted(i, "lt", <<f, v>>, LAMBDA q : lt(q, f, v))
    /\ UNCHANGED <<client, calls, execs, net>>

Lte(i) ==
  \E f \in FilterFields, v \in Scalars :
    /\ CanCall(i)
    /\ qs' = Called(i, LAMBDA q : lte(q, f, v))
    /\ hist' = Noted(i, "lte", <<f, v>>, LAMBDA q : lte(q, f, v))
    /\ UNCHANGED <<client, calls, execs, net>>

Ne(i) ==
  \E f \in FilterFields, v \in Scalars :
    /\ CanCall(i)
    /\ qs' = Called(i, LAMBDA q : ne(q, f, v))
    /\ hist' = Noted(i, "ne", <<f, v>>, LAMBDA q : ne(q, f, v))
    /\ UNCHANGED <<client, calls, execs, net>>

In(i) ==
  \E f \in Fields, vs \in Lists :
    /\ CanCall(i)
    /\ qs' = Called(i, LAMBDA q : in(q, f, vs))
    /\ hist' = Noted(i, "in", <<f, vs>>, LAMBDA q : in(q, f, vs))
    /\ UNCHANGED <<client, calls, execs, net>>

NotIn(i) ==
  \E f \in Fields, vs \in Lists :
    /\ CanCall(i)
    /\ qs' = Called(i, LAMBDA q : notIn(q, f, vs))
    /\ hist' = Noted(i, "notIn", <<f, vs>>, LAMBDA q : notIn(q, f, vs))
    /\ UNCHANGED <<client, calls, execs, net>>

IsNull(i) ==
  \E f \in Fields :
    /\ CanCall(i)
    /\ qs' = Called(i, LAMBDA q : null(q, f))
    /\ hist' = Noted(i, "null", <<f>>, LAMBDA q : null(q, f))
    /\ UNCHANGED <<client, calls, execs, net>>

NotNull(i) ==
  \E f \in Fields :
    /\ CanCall(i)
    /\ qs' = Called(i, LAMBDA q : notNull(q, f))
    /\ hist' = Noted(i, "notNull", <<f>>, LAMBDA q : notNull(q, f))
    /\ UNCHANGED <<client, calls, execs, net>>

Like(i) ==
  \E f \in Fields, v \in Patterns :
    /\ CanCall(i)
    /\ qs' = Called(i, LAMBDA q : like(q, f, v))
    /\ hist' = Noted(i, "like", <<f, v>>, LAMBDA q : like(q, f, v))
    /\ UNCHANGED <<client, calls, execs, net>>

Ilike(i) ==
  \E f \in Fields, v \in Patterns :
    /\ CanCall(i)
    /\ qs' = Called(i, LAMBDA q : ilike(q, f, v))
    /\ hist' = Noted(i, "ilike", <<f, v>>, LAMBDA q : ilike(q, f, v))
    /\ UNCHANGED <<client, calls, execs, net>>

NotLike(i) ==
  \E f \in Fields, v \in Patterns :
    /\ CanCall(i)
    /\ qs' = Called(i, LAMBDA q : notLike(q, f, v))
    /\ hist' = Noted(i, "notLike", <<f, v>>, LAMBDA q : notLike(q, f, v))
    /\ UNCHANGED <<client, calls, execs, net>>

Sum(i) ==
  \E f \in Fields :
    /\ CanCall(i)
    /\ qs' = Called(i, LAMBDA q : sum(q, f))
    /\ hist' = Noted(i, "sum", <<f>>, LAMBDA q : sum(q, f))
    /\ UNCHANGED <<client, calls, execs, net>>

Avg(i) ==
  \E f \in Fields :
    /\ CanCall(i)
    /\ qs' = Called(i, LAMBDA q : avg(q, f))
    /\ hist' = Noted(i, "avg", <<f>>, LAMBDA q : avg(q, f))
    /\ UNCHANGED <<client, calls, execs, net>>

Max(i) ==
  \E f \in Fields :
    /\ CanCall(i)
    /\ qs' = Called(i, LAMBDA q : max(q, f))
    /\ hist' = Noted(i, "max", <<f>>, LAMBDA q : max(q, f))
    /\ UNCHANGED <<client, calls, execs, net>>

Min(i) ==
  \E f \in Fields :
    /\ CanCall(i)
    /\ qs' = Called(i, LAMBDA q : min(q, f))
    /\ hist' = Noted(i, "min", <<f>>, LAMBDA q : min(q, f))
    /\ UNCHANGED <<client, calls, execs, net>>

StdDev(i) ==
  \E f \in Fields :
    /\ CanCall(i)
    /\ qs' = Called(i, LAMBDA q : stdDev(q, f))
    /\ hist' = Noted(i, "stdDev", <<f>>, LAMBDA q : stdDev(q, f))
    /\ UNCHANGED <<client, calls, execs, net>>

Variance(i) ==
  \E f \in Fields :
    /\ CanCall(i)
    /\ qs' = Called(i, LAMBDA q : variance(q, f))
    /\ hist' = Noted(i, "variance", <<f>>, LAMBDA q : variance(q, f))
    /\ UNCHANGED <<client, calls, execs, net>>

Having(i) ==
  \E f \in Fields, v \in { Num(<<"100">>) } :
    /\ CanCall(i)
    /\ qs' = Called(i, LAMBDA q : having(q, <<"sum">>, f, <<"$", "gt">>, v))
    /\ hist' = Noted(i, "having", <<f, v>>,
                     LAMBDA q : having(q, <<"sum">>, f, <<"$", "gt">>, v))
    /\ UNCHANGED <<client, calls, execs, net>>

FilterRange(i) ==
  \E f \in Fields, r \in Ranges :
    /\ CanCall(i)
    /\ qs' = Called(i, LAMBDA q : filterRange(q, f, r[1], r[2]))
    /\ hist' = Noted(i, "filterRange", <<f, r>>,
                     LAMBDA q : filterRange(q, f, r[1], r[2]))
    /\ UNCHANGED <<client, calls, execs, net>>

JoinTable(i) ==
  \E t \in { <<"orders">> } :
    /\ CanCall(i)
    /\ qs' = Called(i, LAMBDA q : join(q, <<"inner">>, t, <<"id">>,
                                        <<"$", "eq">>, <<"order_id">>))
    /\ hist' = Noted(i, "join", <<t>>,
                     LAMBDA q : join(q, <<"inner">>, t, <<"id">>,
                                     <<"$", "eq">>, <<"order_id">>))
    /\ UNCHANGED <<client, calls, execs, net>>

JsonbFilter(i) ==
  \E f \in Fields, v \in Scalars :
    /\ CanCall(i)
    /\ qs' = Called(i, LAMBDA q : jsonbFilter(q, f, <<"tags">>, v))
    /\ hist' = Noted(i, "jsonbFilter", <<f, v>>,
                     LAMBDA q : jsonbFilter(q, f, <<"tags">>, v))
    /\ UNCHANGED <<client, calls, execs, net>>

TextSearch(i) ==
  \E f \in Fields, tsq \in { <<"fat", "&", "rat">> }, l \in Languages :
    /\ CanCall(i)
    /\ qs' = Called(i, LAMBDA q : textSearch(q, f, tsq, l))
    /\ hist' = Noted(i, "textSearch", <<f, tsq, l>>,
                     LAMBDA q : textSearch(q, f, tsq, l))
    /\ UNCHANGED <<client, calls, execs, net>>

Builder(i) ==
  \/ Page(i) \/ PageSize(i) \/ Select(i) \/ Count(i) \/ CountFirst(i)
  \/ Renderer(i) \/ Distinct(i) \/ Order(i) \/ GroupBy(i)
  \/ Eq(i, FilterFields, Scalars) \/ Gt(i) \/ Gte(i) \/ Lt(i) \/ Lte(i) \/ Ne(i)
  \/ In(i) \/ NotIn(i) \/ IsNull(i) \/ NotNull(i)
  \/ Like(i) \/ Ilike(i) \/ NotLike(i)
  \/ Sum(i) \/ Avg(i) \/ Max(i) \/ Min(i) \/ StdDev(i) \/ Variance(i)
  \/ Having(i) \/ FilterRange(i) \/ JoinTable(i) \/ JsonbFilter(i) \/ TextSearch(i)

\* ---------------------------------------------------------------- execute
StatusTexts == { "Not Found" }

\* the execute() calls made on instance i
ExecsOf(i) == { e \in DOMAIN execs : execs[e].q = i }

\* execute() up to its await: the URL is assembled, the transport method is
\* looked up and called, and the call waits for the response; n is the
\* number of execute() calls made on one instance at most
Execute(i, n) ==
  /\ i \in DOMAIN qs
  /\ Cardinality(ExecsOf(i)) < n
  /\ LET q   == qs[i]
         url == ChainedUrl(q)
         m   == getHttpClientMethod(client, q.reqType)
     IN  IF m.error # ""
         THEN /\ execs' = Append(execs,
                   [ q |-> i, url |-> url, fn |-> "", req |-> 0,
                     state |-> "rejected", decode |-> "none",
                     error |-> <<"Failed to make API request: ", m.error>>,
                     sentHist |-> hist[i] ])
              /\ UNCHANGED net
         ELSE /\ net' = Append(net, Fetch(m.fn, url, q.body))
              /\ execs' = Append(execs,
                   [ q |-> i, url |-> url, fn |-> m.fn, req |-> Len(net) + 1,
                     state |-> "pending", decode |-> "none", error |-> <<>>,
                     sentHist |-> hist[i] ])
  /\ UNCHANGED <<client, calls, qs, hist>>

\* a response handling that awaits the decoding inside the try block, so
\* that a decode failure is caught and wrapped
RespondOkAwaited(e) ==
  /\ e \in DOMAIN execs
  /\ execs[e].state = "pending"
  /\ \E decoded \in BOOLEAN :
       execs' = [execs EXCEPT
         ![e].decode = Decode(qs[execs[e].q].reqType, qs[execs[e].q].rendererArg),
         ![e].state = IF decoded THEN "fulfilled" ELSE "rejected",
         ![e].error = IF decoded THEN <<>>
                      ELSE <<"Failed to make API request: ", "decode error">>]
  /\ UNCHANGED <<client, calls, qs, hist, net>>

\* a response handling that empties the clauses once the request is answered
RespondOkConsumes(e) ==
  /\ e \in DOMAIN execs
  /\ execs[e].state = "pending"
  /\ execs' = [execs EXCEPT
       ![e].decode = Decode(qs[execs[e].q].reqType, qs[execs[e].q].rendererArg),
       ![e].state = "fulfilled"]
  /\ qs' = [qs EXCEPT ![execs[e].q].chainedOperations = <<>>]
  /\ UNCHANGED <<client, calls, hist, net>>

\* the response arrives with an ok status: execute() returns the promise of
\* response.blob() / json() / text(), which fulfils or rejects as is
RespondOk(e) ==
  /\ e \in DOMAIN execs
  /\ execs[e].state = "pending"
  /\ \E decoded \in BOOLEAN :
       execs' = [execs EXCEPT
         ![e].decode = Decode(qs[execs[e].q].reqType, qs[execs[e].q].rendererArg),
         ![e].state = IF decoded THEN "fulfilled" ELSE "rejected",
         ![e].error = IF decoded THEN <<>> ELSE <<"decode error">>]
  /\ UNCHANGED <<client, calls, qs, hist, net>>

\* a non-ok status answered by sending the request again
RespondNotOkRetry(e) ==
  /\ e \in DOMAIN execs
  /\ execs[e].state = "pending"
  /\ net' = Append(net, net[execs[e].req])
  /\ UNCHANGED <<client, calls, qs, hist, execs>>

\* the response arrives with a non-ok status: the transport method throws,
\* execute() catches and rethrows
RespondNotOk(e) ==
  /\ e \in DOMAIN execs
  /\ execs[e].state = "pending"
  /\ \E st \in StatusTexts :
       execs' = [execs EXCEPT
         ![e].state = "rejected",
         ![e].error = <<"Failed to make API request: ">>
                        \o NotOkMessage(execs[e].fn, st)]
  /\ UNCHANGED <<client, calls, qs, hist, net>>

\* fetch() itself rejects: execute() catches and rethrows
RespondFailure(e) ==
  /\ e \in DOMAIN execs
  /\ execs[e].state = "pending"
  /\ execs' = [execs EXCEPT
       ![e].state = "rejected",
       ![e].error = <<"Failed to make API request: ", "fetch failed">>]
  /\ UNCHANGED <<client, calls, qs, hist, net>>

\* ------------------------------------------------------------ specification
Next ==
  \/ TableList(Idents, MaxQueries) \/ TableShow(Idents, MaxQueries)
  \/ TableExport(Idents, Rows, MaxQueries) \/ TableInsert(Idents, Rows, MaxQueries)
  \/ TableBatchInsert(Idents, RowArrays, MaxQueries)
  \/ TableUpdate(Idents, Rows, MaxQueries) \/ TableDelete(Idents, MaxQueries)
  \/ QueryList(Idents, MaxQueries) \/ QueryExport(Idents, Rows, MaxQueries)
  \/ \E i \in 1..MaxQueries : Builder(i) \/ Execute(i, MaxExec)
  \/ \E e \in 1..(MaxQueries * MaxExec) :
       RespondOk(e) \/ RespondNotOk(e) \/ RespondFailure(e)

Spec == Init /\ [][Next]_vars

\* Identifier resolution: the accessors and factory methods on every
\* identifier of up to MaxIdLen atoms, each instance executed as created
IdAtoms == { "public", "categories", "." }

IdStrings == UNION { [1..n -> IdAtoms] : n \in 0..MaxIdLen }

AllIdents == { Undefined } \cup { Str(s) : s \in IdStrings }

TwoIdents == { Str(<<"products">>) }

AllRows == { [t |-> "object", v |-> <<"row1">>], [t |-> "object", v |-> <<"row2">>] }

AllRowArrays ==
  { [t |-> "array", v |-> <<"row1">>], [t |-> "array", v |-> <<"row1", ",", "row2">>] }

NextResolve ==
  \/ TableList(AllIdents, MaxQueries) \/ TableShow(AllIdents, MaxQueries)
  \/ TableExport(AllIdents, AllRows, MaxQueries)
  \/ TableInsert(AllIdents, AllRows, MaxQueries)
  \/ TableBatchInsert(AllIdents, AllRowArrays, MaxQueries)
  \/ TableUpdate(AllIdents, AllRows, MaxQueries) \/ TableDelete(AllIdents, MaxQueries)
  \/ QueryList(AllIdents, MaxQueries) \/ QueryExport(AllIdents, AllRows, MaxQueries)
  \/ \E i \in 1..MaxQueries : Execute(i, MaxExec)
  \/ \E e \in 1..(MaxQueries * MaxExec) :
       RespondOk(e) \/ RespondNotOk(e) \/ RespondFailure(e)

SpecResolve == Init /\ [][NextResolve]_vars

\* Several instances side by side: instances made by list() and export() on
\* one table, page() and renderer() calls and execute() calls on each, in
\* every interleaving
NextTwo ==
  \/ TableList(TwoIdents, MaxInstances) \/ TableExport(TwoIdents, Rows, MaxInstances)
  \/ \E i \in 1..MaxInstances : Page(i) \/ Renderer(i) \/ Execute(i, MaxExec)
  \/ \E e \in 1..(MaxInstances * MaxExec) :
       RespondOk(e) \/ RespondNotOk(e) \/ RespondFailure(e)

SpecTwo == Init /\ [][NextTwo]_vars

\* One instance executed several times, builder calls before, between and
\* after the execute() calls
NextReplay ==
  \/ TableList(TwoIdents, MaxQueries) \/ TableInsert(TwoIdents, Rows, MaxQueries)
  \/ \E i \in 1..MaxQueries :
       Page(i) \/ PageSize(i) \/ Sum(i) \/ Execute(i, MaxReplays)
  \/ \E e \in 1..(MaxQueries * MaxReplays) :
       RespondOk(e) \/ RespondNotOk(e) \/ RespondFailure(e)

SpecReplay == Init /\ [][NextReplay]_vars

\* Rendering: renderer() calls and eq() calls, also with the field name
\* "_renderer", on one instance
RendererFields == { <<"_renderer">>, <<"price">> }

RendererValues == { Str(<<"xml">>), Str(<<"json">>) }

NextRender ==
  \/ TableList(TwoIdents, MaxQueries)
  \/ \E i \in 1..MaxQueries :
       Renderer(i) \/ Eq(i, RendererFields, RendererValues) \/ Execute(i, MaxExec)
  \/ \E e \in 1..(MaxQueries * MaxExec) :
       RespondOk(e) \/ RespondNotOk(e) \/ RespondFailure(e)

SpecRender == Init /\ [][NextRender]_vars

\* ------------------------------------------------- the client of client.ts
\* The earlier client (src/src/api/client.ts): Table(name) returns an object
\* of operations that each send their request at once.  Its calls are logged
\* in calls, its requests in net and its promises in execs.
database == <<"DB">>

\* Table(tableName), lines 209-224: the error thrown or the schema and table
Table(cl, tableName) ==
  IF ~cl THEN [error |-> "Client not initialized", a |-> <<>>, b |-> <<>>]
  ELSE IF ~Truthy(tableName)
  THEN [error |-> "Table name is required", a |-> <<>>, b |-> <<>>]
  ELSE IF Includes(tableName.v, ".")
  THEN LET parts == Split(tableName.v, ".")
       IN  [error |-> "", a |-> parts[1], b |-> parts[2]]
  ELSE [error |-> "", a |-> <<"public">>, b |-> tableName.v]

\* the properties of the object Table() returns, lines 226-275
TableOperations == { "List", "Show", "Insert", "Update" }

\* the transport method each operation calls
TableTransport(op) ==
  CASE op \in {"List", "Show"} -> "get"
    [] op = "Insert"           -> "post"
    [] op = "Update"           -> "put"

\* the URL each operation builds
TableRequestUrl(op, acc, field, value) ==
  CASE op = "List"   -> base_url \o <<"/">> \o database \o <<"/">> \o acc.a \o <<"/">> \o acc.b
    [] op = "Show"   -> base_url \o <<"/", "show", "/">> \o database
                          \o <<"/">> \o acc.a \o <<"/">> \o acc.b
    [] op = "Insert" -> base_url \o <<"/">> \o database \o <<"/">> \o acc.a \o <<"/">> \o acc.b
    [] op = "Update" -> base_url \o <<"/">> \o database \o <<"/">> \o acc.a \o <<"/">> \o acc.b
                          \o <<"?">> \o field \o <<"=">> \o ToString(value)

\* createClient() of client.ts, lines 71-117: the fetch() call of get, post
\* and put
ClientFetch(method, url, body) ==
  CASE method = "get" ->
         [ verb |-> "GET", url |-> url, body |-> NoBody,
           headers |-> {<<"Authorization", "Basic">>} ]
    [] method = "post" ->
         [ verb |-> "POST", url |-> url,
           body |-> [sent |-> TRUE, text |-> JSONstringify(body)],
           headers |-> {<<"Content-Type", "application/json">>,
                        <<"Authorization", "Basic">>} ]
    [] method = "put" ->
         [ verb |-> "PUT", url |-> url,
           body |-> [sent |-> TRUE, text |-> JSONstringify(body)],
           headers |-> {<<"Content-Type", "application/json">>,
                        <<"Authorization", "Basic">>} ]

\* the error an operation throws from its catch block
TableFailure(op, tbl, message) ==
  << CASE op = "List"   -> "Failed to fetch data from "
       [] op = "Show"   -> "Failed to show data for "
       [] op = "Insert" -> "Failed to insert data into "
       [] op = "Update" -> "Failed to update data in " >>
    \o tbl \o <<": ">> \o message

\* the operation call that waits on promise e, and the table it resolved
TableCallOf(e) == calls[CHOOSE c \in DOMAIN calls : calls[c].made = e]

TableOf(e) == Table(client, TableCallOf(e).id).b

\* the names called on the object Table() returns: its four operations, and
\* Delete as client.test.ts calls it
TableCalled == TableOperations \cup { "Delete" }

TableIdents == { Undefined, Str(<<"categories">>), Str(<<"public", ".", "categories">>) }

\* client.Table(id).<op>(...): Table() throws, or the name is not a property
\* of the object it returns and the call throws a TypeError, or the operation
\* sends its request and waits for the response
TableCall(op) ==
  \E id \in TableIdents, data \in Rows :
    LET acc   == Table(client, id)
        field == <<"category_id">>
        value == Num(<<"7">>)
        body  == IF op \in {"Insert", "Update"} THEN data ELSE Null
    IN  /\ Len(calls) < MaxTableCalls
        /\ IF acc.error # ""
           THEN /\ calls' = Append(calls, [ f |-> op, id |-> id, data |-> body,
                                            error |-> acc.error, made |-> 0 ])
                /\ UNCHANGED <<execs, net>>
           ELSE IF op \notin TableOperations
           THEN /\ calls' = Append(calls, [ f |-> op, id |-> id, data |-> body,
                                            error |-> "TypeError: not a function",
                                            made |-> 0 ])
                /\ UNCHANGED <<execs, net>>
           ELSE LET url == TableRequestUrl(op, acc, field, value)
                IN  /\ calls' = Append(calls, [ f |-> op, id |-> id, data |-> body,
                                                error |-> "", made |-> Len(execs) + 1 ])
                    /\ net' = Append(net, ClientFetch(TableTransport(op), url, body))
                    /\ execs' = Append(execs,
                         [ q |-> 0, url |-> url, fn |-> TableTransport(op),
                           req |-> Len(net) + 1, state |-> "pending",
                           decode |-> "none", error |-> <<>>, sentHist |-> <<>> ])
        /\ UNCHANGED <<client, qs, hist>>

\* the response arrives with an ok status and response.json() is awaited
\* inside the try block: the result, or the wrapped decode failure
TableRespondOk(e) ==
  /\ e \in DOMAIN execs
  /\ execs[e].state = "pending"
  /\ \E decoded \in BOOLEAN :
       execs' = [execs EXCEPT
         ![e].decode = "json",
         ![e].state = IF decoded THEN "fulfilled" ELSE "rejected",
         ![e].error = IF decoded THEN <<>>
                      ELSE TableFailure(TableCallOf(e).f, TableOf(e), <<"decode error">>)]
  /\ UNCHANGED <<client, calls, qs, hist, net>>

\* a non-ok status or a failure of fetch: the operation rethrows, wrapped
TableRespondFailed(e) ==
  /\ e \in DOMAIN execs
  /\ execs[e].state = "pending"
  /\ \E message \in { NotOkMessage(execs[e].fn, st) : st \in StatusTexts }
                      \cup { <<"fetch failed">> } :
       execs' = [execs EXCEPT
         ![e].state = "rejected",
         ![e].error = TableFailure(TableCallOf(e).f, TableOf(e), message)]
  /\ UNCHANGED <<client, calls, qs, hist, net>>

NextTable ==
  \/ \E op \in TableCalled : TableCall(op)
  \/ \E e \in 1..MaxTableCalls : TableRespondOk(e) \/ TableRespondFailed(e)

SpecTable == Init /\ [][NextTable]_vars

\* ------------------------------------------------------------------ claims
\* the execute() calls whose request reached the transport, and that request
Sent == { e \in DOMAIN execs : execs[e].req > 0 }

Req(e) == net[execs[e].req]

\* the factory call that made instance i
MadeBy(i) == calls[CHOOSE c \in DOMAIN calls : calls[c].made = i]

\* the clauses and the aggregate tokens of a sequence of builder calls, each
\* call's output in call order
CallOps(h) == Concat([k \in DOMAIN h |-> h[k].ops])

CallFns(h) == Concat([k \in DOMAIN h |-> h[k].fns])

\* the names of the methods called
Methods(h) == [k \in DOMAIN h |-> h[k].m]

IsPrefix(p, s) == Len(p) <= Len(s) /\ SubSeq(s, 1, Len(p)) = p

IsSuffix(p, s) == Len(p) <= Len(s) /\ SubSeq(s, Len(s) - Len(p) + 1, Len(s)) = p

\* "?" and the directives separated by "&"; nothing for no directive
QueryString(ds) == IF ds = <<>> THEN <<>> ELSE <<"?">> \o Join(ds, <<"&">>)

\* the aggregate directive of a sequence of tokens
SelectDirective(fns) == <<"_select", "=">> \o Join(fns, <<",">>)

\* C1: in every request execute() sends, the clauses of the builder calls made
\* before it stand in the URL in call order, the first directly after "?" and
\* each later one after "&"; with no aggregate call they are all that follows
\* the base URL.
C1_OrderPreservation ==
  \A e \in Sent :
    LET h == execs[e].sentHist
        q == qs[execs[e].q]
        expected == q.baseUrl \o QueryString(CallOps(h))
    IN  /\ IsPrefix(expected, Req(e).url)
        /\ CallFns(h) = <<>> => Req(e).url = expected

\* table("products").list().page(1).pageSize(10).execute() has sent
\* <base>/public/products?_page=1&_page_size=10
C1_Witness ==
  \E e \in Sent :
    /\ Methods(execs[e].sentHist) = <<"page", "pageSize">>
    /\ MadeBy(execs[e].q).f = "list"
    /\ Req(e).url = <<"BASE", "/", "public", "/", "products", "?",
                      "_page", "=", "1", "&", "_page_size", "=", "10">>

\* C2: when at least one aggregate function was called, the URL sent ends with
\* one directive "_select=" + the aggregate tokens in call order joined by
\* ",", and everything before it is the base URL and the other clauses,
\* whatever the interleaving of the calls.
C2_AggregatesTrail ==
  \A e \in Sent :
    LET h == execs[e].sentHist
        q == qs[execs[e].q]
    IN  CallFns(h) # <<>> =>
          Req(e).url = q.baseUrl \o QueryString(CallOps(h)) \o <<"&">>
                         \o SelectDirective(CallFns(h))

\* an aggregate called before a clause-emitting method, and sent
C2_Witness ==
  \E e \in Sent :
    /\ Methods(execs[e].sentHist) = <<"sum", "groupBy">>
    /\ IsSuffix(<<"&", "_select", "=", "sum", ":", "price">>, Req(e).url)

\* C3: every URL sent is the base URL alone when no directive is emitted, and
\* otherwise the base URL, one "?", and the directives separated by "&" --
\* also when only aggregate functions were called.
C3_WellFormedUrl ==
  \A e \in Sent :
    LET h == execs[e].sentHist
        q == qs[execs[e].q]
        directives ==
          CallOps(h) \o (IF CallFns(h) # <<>>
                         THEN <<SelectDirective(CallFns(h))>> ELSE <<>>)
    IN  Req(e).url = q.baseUrl \o QueryString(directives)

\* C4: an execute() on an instance whose reqType is "export" never decodes as
\* json or text; when it succeeds the payload was taken as a blob.
C4_ExportIsBlob ==
  \A e \in DOMAIN execs :
    qs[execs[e].q].reqType = "export" =>
      /\ execs[e].decode \notin {"json", "text"}
      /\ execs[e].state = "fulfilled" => execs[e].decode = "blob"

\* an export succeeded after renderer("json") was called on the instance
C4_Witness ==
  \E e \in DOMAIN execs :
    /\ qs[execs[e].q].reqType = "export"
    /\ execs[e].state = "fulfilled"
    /\ \E k \in DOMAIN execs[e].sentHist :
         execs[e].sentHist[k].m = "renderer" /\ execs[e].sentHist[k].arg = "json"

\* the render mode a sequence of builder calls asks for: "json" without a
\* renderer() call, else the argument of the last one
RenderMode(h) ==
  LET R == { k \in DOMAIN h : h[k].m = "renderer" }
  IN  IF R = {} THEN "json" ELSE h[CHOOSE k \in R : \A j \in R : j <= k].arg

\* C5: when the response of an execute() on a get/post/put/delete instance is
\* decoded, it is decoded as json exactly when the render mode of the builder
\* calls made so far is "json", and as text otherwise.
C5_DecodeFollowsRenderer ==
  [][ \A e \in DOMAIN execs :
        ( /\ execs[e].state = "pending"
          /\ execs'[e].state # "pending"
          /\ execs'[e].decode # "none"
          /\ qs[execs[e].q].reqType \in {"get", "post", "put", "delete"} )
        => execs'[e].decode =
             (IF RenderMode(hist[execs[e].q]) = "json" THEN "json" ELSE "text")
    ]_vars

\* a get request succeeded and was decoded as text
C5_Witness ==
  \E e \in DOMAIN execs :
    /\ qs[execs[e].q].reqType = "get"
    /\ execs[e].state = "fulfilled"
    /\ execs[e].decode = "text"

\* the accessor + factory calls on table() that made an instance
TableFactories ==
  { "list", "show", "export", "insert", "batchInsert", "update", "delete" }

TableMade == { c \in DOMAIN calls : calls[c].f \in TableFactories /\ calls[c].made # 0 }

\* the route of a table() factory method for a schema and a table
TableUrl(f, schema, tbl) ==
  base_url
    \o (CASE f = "show"        -> <<"/", "show">>
          [] f = "export"      -> <<"/", "export">>
          [] f = "batchInsert" -> <<"/", "batch">>
          [] OTHER             -> <<>>)
    \o <<"/">> \o schema \o <<"/">> \o tbl

\* C6: table(undefined), table(''), query(undefined) and query('') throw the
\* missing-identifier error at the accessor call: the call makes no
\* ChainedQuery, and every fetch() belongs to an execute() of an instance made
\* with a non-empty identifier.
C6_MissingIdentifier ==
  /\ \A c \in DOMAIN calls :
       ~Truthy(calls[c].id) =>
         /\ calls[c].made = 0
         /\ calls[c].error = (IF calls[c].f \in TableFactories
                              THEN "table name is required"
                              ELSE "script name is required")
  /\ Len(qs) = Cardinality({ c \in DOMAIN calls : calls[c].made # 0 })
  /\ \A n \in DOMAIN net :
       \E e \in DOMAIN execs :
         execs[e].req = n /\ Truthy(MadeBy(execs[e].q).id)

\* table(undefined).list was called and threw
C6_Witness ==
  \E c \in DOMAIN calls :
    /\ calls[c].id = Undefined
    /\ calls[c].f = "list"
    /\ calls[c].error = "table name is required"

\* C7: table() resolves an identifier without "." to schema "public" and the
\* whole identifier as table; "public.categories" to schema "public", table
\* "categories"; and "<schema>." to that schema with the empty table name.
C7_IdentifierResolution ==
  \A c \in TableMade :
    LET s   == calls[c].id.v
        f   == calls[c].f
        url == qs[calls[c].made].baseUrl
    IN  /\ ~Includes(s, ".") => url = TableUrl(f, <<"public">>, s)
        /\ s = <<"public", ".", "categories">> =>
             url = TableUrl(f, <<"public">>, <<"categories">>)
        /\ ( /\ Len(s) >= 2
             /\ s[Len(s)] = "."
             /\ ~Includes(SubSeq(s, 1, Len(s) - 1), ".") ) =>
             url = TableUrl(f, SubSeq(s, 1, Len(s) - 1), <<>>)

\* table("public.").list() was called and its request sent
C7_Witness ==
  \E e \in Sent :
    /\ MadeBy(execs[e].q).id = Str(<<"public", ".">>)
    /\ MadeBy(execs[e].q).f = "list"
    /\ Req(e).url = <<"BASE", "/", "public", "/">>

\* the position of the first "." of s, and the parts on its two sides
FirstDot(s) == CHOOSE k \in DOMAIN s : s[k] = "." /\ \A j \in 1..(k - 1) : s[j] # "."

LeftOfDot(s) == SubSeq(s, 1, FirstDot(s) - 1)

RightOfDot(s) == SubSeq(s, FirstDot(s) + 1, Len(s))

\* C8 as stated: for every identifier with a ".", the schema is all that is
\* left of the first "." and the table all that is right of it.
C8_SplitAtFirstDot ==
  \A c \in TableMade :
    LET s == calls[c].id.v
    IN  Includes(s, ".") =>
          qs[calls[c].made].baseUrl = TableUrl(calls[c].f, LeftOfDot(s), RightOfDot(s))

\* C8 as amended: the schema is what is left of the first ".", or "public"
\* when that is empty; the table is what stands between the first "." and
\* the second one (all that follows the first "." when there is no second).
C8_SplitAmended ==
  \A c \in TableMade :
    LET s      == calls[c].id.v
        rest   == RightOfDot(s)
        schema == IF LeftOfDot(s) = <<>> THEN <<"public">> ELSE LeftOfDot(s)
        tbl    == IF Includes(rest, ".") THEN LeftOfDot(rest) ELSE rest
    IN  Includes(s, ".") =>
          qs[calls[c].made].baseUrl = TableUrl(calls[c].f, schema, tbl)

\* table(".categories.public").show() was called: the identifier starts
\* with a "." and holds a second one
C8_Witness ==
  \E c \in TableMade :
    /\ calls[c].id.v = <<".", "categories", ".", "public">>
    /\ calls[c].f = "show"

\* the verb of each table() factory method
VerbOf(f) ==
  CASE f \in {"list", "show"}                   -> "GET"
    [] f \in {"insert", "batchInsert", "export"} -> "POST"
    [] f = "update"                              -> "PUT"
    [] f = "delete"                              -> "DELETE"

\* the path of a URL: all that stands before its first "?"
Path(url) ==
  IF Includes(url, "?")
  THEN SubSeq(url, 1, (CHOOSE k \in DOMAIN url :
                         url[k] = "?" /\ \A j \in 1..(k - 1) : url[j] # "?") - 1)
  ELSE url

\* C9: every request execute() sends for an instance made by a table()
\* factory method has the verb of that method and, as its path, the route of
\* that method for the resolved schema and table, whatever builder calls
\* were made.
C9_FactoryFixesVerbAndRoute ==
  \A e \in Sent :
    LET c == MadeBy(execs[e].q)
        r == ResolveTable(c.id.v)
    IN  c.f \in TableFactories =>
          /\ Req(e).verb = VerbOf(c.f)
          /\ Path(Req(e).url) = TableUrl(c.f, r.schemaName, r.tableName)

\* C10: requests of instances made by list, show and delete carry no body;
\* those made by insert, batchInsert, update and export carry the data given
\* to the factory method, and the instance keeps that body through every
\* builder call and execute().
C10_BodyPerFactory ==
  /\ \A c \in TableMade :
       qs[calls[c].made].body =
         (IF calls[c].f \in {"list", "show", "delete"} THEN Null ELSE calls[c].data)
  /\ \A e \in Sent :
       LET c == MadeBy(execs[e].q)
       IN  c.f \in TableFactories =>
             IF c.f \in {"list", "show", "delete"}
             THEN Req(e).body = NoBody
             ELSE Req(e).body = [sent |-> TRUE, text |-> JSONstringify(c.data)]

\* an update was sent with its data after builder calls, and a delete
\* without a body is what the other branch covers
C10_Witness ==
  \E e \in Sent :
    /\ MadeBy(execs[e].q).f = "update"
    /\ Len(execs[e].sentHist) = MaxCalls
    /\ Req(e).body.text = <<"{", "row1", "}">>

\* the route of a query() factory method for a path and a script
QueryUrl(f, path, script) ==
  base_url
    \o <<"/", "_queries">>
    \o (IF f = "queryExport" THEN <<"/", "export">> ELSE <<>>)
    \o <<"/">> \o path \o <<"/">> \o script

\* the accessor + factory calls on query() that made an instance
QueryMade ==
  { c \in DOMAIN calls : calls[c].f \in {"queryList", "queryExport"} /\ calls[c].made # 0 }

\* C11: query() resolves its identifier as table() is said to: without "."
\* the path is "public" and the whole identifier the script; with "." the
\* path is what is left of it and the script what is right of it; the
\* instance list() makes targets GET <base>/_queries/{path}/{script}.
C11_QueryResolution ==
  /\ \A c \in QueryMade :
       LET s   == calls[c].id.v
           url == qs[calls[c].made].baseUrl
       IN  IF Includes(s, ".")
           THEN url = QueryUrl(calls[c].f, LeftOfDot(s), RightOfDot(s))
           ELSE url = QueryUrl(calls[c].f, <<"public">>, s)
  /\ \A e \in Sent :
       MadeBy(execs[e].q).f = "queryList" => Req(e).verb = "GET"

\* C12: the fetch() calls made are exactly those of the execute() calls, one
\* each and in the order of the calls, whether the request is still pending,
\* succeeded, failed or was answered with a non-ok status: no accessor,
\* factory or builder call makes one, and no execute() makes a second.
C12_TransportOncePerExecute ==
  /\ Len(net) = Len(execs)
  /\ \A e \in DOMAIN execs :
       /\ execs[e].req = e
       /\ net[e].url = execs[e].url

\* an execute() made after builder calls was rejected in the transport (a
\* non-ok status or a failure of fetch), with one fetch() per execute()
C12_Witness ==
  \E e \in DOMAIN execs :
    /\ execs[e].state = "rejected"
    /\ execs[e].decode = "none"
    /\ Len(execs[e].sentHist) > 0
    /\ Len(net) = Len(execs)

\* C13: an execute() whose transport call failed or was answered with a
\* non-ok status is rejected, and the message of its error holds the status
\* text or failure message, the name of the operation (the factory method)
\* and the identifier of the target table or script.
C13_ErrorCarriesContext ==
  \A e \in Sent :
    (execs[e].state = "rejected" /\ execs[e].decode = "none") =>
      LET msg == execs[e].error
          c   == MadeBy(execs[e].q)
      IN  /\ \E t \in StatusTexts \cup {"fetch failed"} : Includes(msg, t)
          /\ \E k \in DOMAIN msg : msg[k] = c.f
          /\ \A k \in DOMAIN c.id.v : Includes(msg, c.id.v[k])

\* the builder calls made so far: instance and position in its history
BuilderCalls == { <<i, k>> \in (DOMAIN hist) \X (1..MaxCalls) : k \in DOMAIN hist[i] }

\* the clauses of every instance are those its builder calls emitted, each
\* call's after those of the calls before it
ClausesAppended == \A i \in DOMAIN qs : qs[i].chainedOperations = CallOps(hist[i])

\* the texts of a list of values joined by ",", no character changed
RawJoin(vs) == Join([j \in DOMAIN vs |-> vs[j].v], <<",">>)

\* C14: in(field, values) appends the one clause field=$in.<values joined by
\* ","> and notIn(field, values) the one clause field=$nin.<values joined by
\* ",">, the values as they are, without percent-encoding.
C14_InNotInRaw ==
  /\ ClausesAppended
  /\ \A ik \in BuilderCalls :
       LET c == hist[ik[1]][ik[2]]
       IN  /\ c.m = "in" =>
                /\ c.ops = << c.arg[1] \o <<"=", "$", "in", ".">> \o RawJoin(c.arg[2]) >>
                /\ c.fns = <<>>
           /\ c.m = "notIn" =>
                /\ c.ops = << c.arg[1] \o <<"=", "$", "nin", ".">> \o RawJoin(c.arg[2]) >>
                /\ c.fns = <<>>

\* in('price', [1, 2, 3]) was sent as ?price=$in.1,2,3, and a notIn() with
\* the values 'a b' and 'c&d' was made
C14_Witness ==
  /\ \E e \in Sent :
       Req(e).url = <<"BASE", "/", "public", "/", "products", "?", "price", "=",
                      "$", "in", ".", "1", ",", "2", ",", "3">>
  /\ \E ik \in BuilderCalls :
       /\ hist[ik[1]][ik[2]].m = "notIn"
       /\ hist[ik[1]][ik[2]].arg[2][1] = Str(<<"a", " ", "b">>)

\* the operator token of a scalar comparison
ComparisonToken(m) == IF m = "eq" THEN <<>> ELSE <<"$", m, ".">>

\* C15: eq, gt, gte, lt, lte and ne each append one clause: the field name
\* as given, "=", the operator token ("" for eq, "$gt." ... "$ne." for the
\* others) and the percent-encoded text of the value.
C15_ScalarComparisons ==
  /\ ClausesAppended
  /\ \A ik \in BuilderCalls :
       LET c == hist[ik[1]][ik[2]]
       IN  c.m \in {"eq", "gt", "gte", "lt", "lte", "ne"} =>
             /\ c.ops = << c.arg[1] \o <<"=">> \o ComparisonToken(c.m)
                             \o Escape(ToString(c.arg[2])) >>
             /\ c.fns = <<>>

\* lte('unit price', 'a b') was sent as ?unit price=$lte.a%20b
C15_Witness ==
  \E e \in Sent :
    /\ Methods(execs[e].sentHist) = <<"lte">>
    /\ Req(e).url = <<"BASE", "/", "public", "/", "products", "?", "unit", " ", "price",
                      "=", "$", "lte", ".", "a", "%20", "b">>

\* a bound that is given: numeric 0 or a truthy value
BoundGiven(x) == x = Num(<<"0">>) \/ (x \notin {Undefined, Null, Str(<<>>), Num(<<"0">>)})

\* C16: filterRange(field, start, end) appends field=$gte.<start> exactly
\* when start is 0 or truthy and field=$lte.<end> exactly when end is 0 or
\* truthy, the $gte clause first; undefined, null and '' emit nothing, and
\* with both bounds absent the clauses are left as they were.
C16_FilterRange ==
  /\ ClausesAppended
  /\ \A ik \in BuilderCalls :
       LET c     == hist[ik[1]][ik[2]]
           f     == c.arg[1]
           start == c.arg[2][1]
           end   == c.arg[2][2]
           lo    == IF BoundGiven(start)
                    THEN << f \o <<"=", "$", "gte", ".">> \o Escape(ToString(start)) >>
                    ELSE <<>>
           hi    == IF BoundGiven(end)
                    THEN << f \o <<"=", "$", "lte", ".">> \o Escape(ToString(end)) >>
                    ELSE <<>>
       IN  c.m = "filterRange" => (c.ops = lo \o hi /\ c.fns = <<>>)

\* filterRange('price', 0, undefined) was sent as ?price=$gte.0, and a
\* filterRange('price', undefined, null) left the clauses empty
C16_Witness ==
  /\ \E e \in Sent :
       /\ Methods(execs[e].sentHist) = <<"filterRange">>
       /\ execs[e].sentHist[1].arg[2] = <<Num(<<"0">>), Undefined>>
       /\ Req(e).url = <<"BASE", "/", "public", "/", "products", "?", "price", "=",
                         "$", "gte", ".", "0">>
  /\ \E ik \in BuilderCalls :
       /\ hist[ik[1]][ik[2]].m = "filterRange"
       /\ hist[ik[1]][ik[2]].arg[2] = <<Undefined, Null>>
       /\ hist[ik[1]][ik[2]].ops = <<>>

\* the URL execute() assembles from a base URL and a sequence of builder
\* calls alone
UrlOfCalls(baseUrl, h) ==
  baseUrl \o QueryString(CallOps(h))
    \o (IF CallFns(h) # <<>> THEN <<"&">> \o SelectDirective(CallFns(h)) ELSE <<>>)

\* the decode mode of a factory method and a sequence of builder calls alone
DecodeOfCalls(f, h) ==
  IF f \in {"export", "queryExport"} THEN "blob"
  ELSE IF RenderMode(h) = "json" THEN "json" ELSE "text"

\* C17: with several instances alive and their calls interleaved in every
\* way, the URL and the verb of each request are those of the instance's own
\* factory call and own builder calls, and the decode mode chosen when its
\* response arrives is that of its own factory call and own builder calls.
C17_InstancesIndependent ==
  /\ [](\A e \in Sent :
          LET i == execs[e].q
              c == MadeBy(i)
          IN  /\ Req(e).url = UrlOfCalls(TableUrl(c.f, <<"public">>, c.id.v),
                                         execs[e].sentHist)
              /\ Req(e).verb = VerbOf(c.f))
  /\ [][ \A e \in DOMAIN execs :
           (execs[e].state = "pending" /\ execs'[e].decode # "none") =>
             execs'[e].decode = DecodeOfCalls(MadeBy(execs[e].q).f, hist[execs[e].q])
       ]_vars

\* two instances of one factory method: the request of the first was sent
\* after a page() and a renderer('xml') call on the second only, and the
\* second was then sent and decoded as text
C17_Witness ==
  \E e1, e2 \in Sent :
    /\ execs[e1].q = 1
    /\ execs[e2].q = 2
    /\ e1 > e2
    /\ MadeBy(1).f = "list"
    /\ MadeBy(2).f = "list"
    /\ Methods(execs[e2].sentHist) = <<"page", "renderer">>
    /\ execs[e2].decode = "text"
    /\ execs[e1].sentHist = <<>>
    /\ Req(e1).url = <<"BASE", "/", "public", "/", "products">>
    /\ execs[e1].state = "fulfilled"
    /\ execs[e1].decode = "json"

\* C18: every call Table(name).Delete(field, value) on the client of
\* client.ts, name given, sends one DELETE request to the rows of
\* {schema}/{table} filtered by field=value, and resolves with the decoded
\* JSON result when the response is ok.
C18_TableOffersDelete ==
  \A c \in DOMAIN calls :
    (calls[c].f = "Delete" /\ Truthy(calls[c].id)) =>
      /\ calls[c].error = ""
      /\ calls[c].made \in DOMAIN execs
      /\ net[execs[calls[c].made].req].verb = "DELETE"
      /\ execs[calls[c].made].state = "fulfilled" => execs[calls[c].made].decode = "json"

\* a directive of the form _select=...
IsSelectDirective(d) == Len(d) >= 2 /\ d[1] = "_select" /\ d[2] = "="

\* C19: when select() and at least one aggregate function were called before
\* execute(), the URL sent holds the clause of each select() call at its
\* call-order position among the clauses and the aggregate _select directive
\* last: one more _select directive than select() calls, none merged or
\* dropped.
C19_TwoSelectDirectives ==
  \A e \in Sent :
    LET h          == execs[e].sentHist
        S          == { k \in DOMAIN h : h[k].m = "select" }
        directives == CallOps(h) \o << SelectDirective(CallFns(h)) >>
    IN  (S # {} /\ CallFns(h) # <<>>) =>
          /\ Req(e).url = qs[execs[e].q].baseUrl \o <<"?">> \o Join(directives, <<"&">>)
          /\ Cardinality({ k \in DOMAIN directives : IsSelectDirective(directives[k]) })
               = Cardinality(S) + 1
          /\ \A k \in S :
               directives[Len(CallOps(SubSeq(h, 1, k - 1))) + 1]
                 = <<"_select", "=">> \o Escape(h[k].arg[1])
          /\ directives[Len(directives)] = SelectDirective(CallFns(h))

\* sum('price') then select('id,name') was sent with both directives
C19_Witness ==
  \E e \in Sent :
    /\ Methods(execs[e].sentHist) = <<"sum", "select">>
    /\ Req(e).url = <<"BASE", "/", "public", "/", "products", "?", "_select", "=",
                      "id", "%2C", "name", "&", "_select", "=", "sum", ":", "price">>

\* C20: reqType, baseUrl and body of every ChainedQuery stay what the
\* constructor set them to, through every builder call, execute() call and
\* response, ok or failed; instances are never removed.
C20_FieldsFixed ==
  [][ /\ Len(qs') >= Len(qs)
      /\ \A i \in DOMAIN qs :
           /\ qs'[i].reqType = qs[i].reqType
           /\ qs'[i].baseUrl = qs[i].baseUrl
           /\ qs'[i].body = qs[i].body
    ]_vars

\* an update instance after MaxCalls builder calls and a failed execute()
C20_Witness ==
  \E e \in DOMAIN execs :
    /\ execs[e].state = "rejected"
    /\ Len(execs[e].sentHist) = MaxCalls
    /\ qs[execs[e].q].reqType = "put"
    /\ qs[execs[e].q].body \in Rows
    /\ qs[execs[e].q].baseUrl = <<"BASE", "/", "public", "/", "products">>

\* the aggregate functions
AggregateMethods == { "sum", "avg", "max", "min", "stdDev", "variance" }

\* the step is a builder call on instance i: its history grows by one call
IsBuilderCall(i) == i \in DOMAIN hist /\ Len(hist'[i]) = Len(hist[i]) + 1

\* C21: on every builder call the clauses and the aggregates of the instance
\* before the call are prefixes of those after it; an aggregate function
\* leaves the clauses as they are, every other method (having too) leaves
\* the aggregates as they are, only renderer() changes the render mode, and
\* the call acts on the instance it was made on: that instance stays in
\* place and no other instance changes.
C21_AppendOnly ==
  [][ \A i \in DOMAIN qs :
        IsBuilderCall(i) =>
          LET m == hist'[i][Len(hist'[i])].m
          IN  /\ Len(qs') = Len(qs)
              /\ \A j \in DOMAIN qs : j # i => qs'[j] = qs[j]
              /\ IsPrefix(qs[i].chainedOperations, qs'[i].chainedOperations)
              /\ IsPrefix(qs[i].sqlFunctions, qs'[i].sqlFunctions)
              /\ m \in AggregateMethods =>
                   qs'[i].chainedOperations = qs[i].chainedOperations
              /\ m \notin AggregateMethods => qs'[i].sqlFunctions = qs[i].sqlFunctions
              /\ m # "renderer" => qs'[i].rendererArg = qs[i].rendererArg
    ]_vars

\* sum() and then having() were called on one instance: one aggregate, one
\* clause
C21_Witness ==
  \E i \in DOMAIN qs :
    /\ Methods(hist[i]) = <<"sum", "having">>
    /\ Len(qs[i].sqlFunctions) = 1
    /\ Len(qs[i].chainedOperations) = 1

\* C22: execute() and the handling of its response leave the clauses, the
\* aggregates and the render mode as they are; two execute() calls on one
\* instance with no builder call in between make two fetch() calls with the
\* same URL, verb and body; and builder calls made after an execute() extend
\* the clauses, so a later execute() sends the earlier clauses followed by
\* the new ones.
C22_ExecuteKeepsBuilder ==
  /\ [][ hist' = hist => qs' = qs ]_vars
  /\ [](\A e1, e2 \in Sent :
          (e1 < e2 /\ execs[e1].q = execs[e2].q) =>
            /\ execs[e1].req # execs[e2].req
            /\ execs[e1].sentHist = execs[e2].sentHist => Req(e1) = Req(e2)
            /\ IsPrefix(CallOps(execs[e1].sentHist), CallOps(execs[e2].sentHist))
            /\ IsPrefix(qs[execs[e2].q].baseUrl
                          \o QueryString(CallOps(execs[e2].sentHist)),
                        Req(e2).url))

\* page(1), execute() twice, then pageSize(10) and a third execute(): the
\* first two requests are the same, the third holds both clauses
C22_Witness ==
  /\ Len(execs) = 3
  /\ \A e \in 1..3 : e \in Sent /\ execs[e].q = 1
  /\ Methods(execs[1].sentHist) = <<"page">>
  /\ execs[2].sentHist = execs[1].sentHist
  /\ Req(1) = Req(2)
  /\ execs[1].req # execs[2].req
  /\ Req(3).url = <<"BASE", "/", "public", "/", "products", "?",
                    "_page", "=", "1", "&", "_page_size", "=", "10">>

\* C23: textSearch(field, query, language) appends one clause: the field,
\* then "$" and the language exactly when a non-empty language is given,
\* then ":tsquery=" and the percent-encoded query.
C23_TextSearch ==
  /\ ClausesAppended
  /\ \A ik \in BuilderCalls :
       LET c    == hist[ik[1]][ik[2]]
           lang == c.arg[3]
           part == IF lang \notin {Undefined, Null, Str(<<>>)}
                   THEN <<"$">> \o lang.v ELSE <<>>
       IN  c.m = "textSearch" =>
             /\ c.ops = << c.arg[1] \o part \o <<":", "tsquery", "=">> \o Escape(c.arg[2]) >>
             /\ c.fns = <<>>

\* textSearch('price', 'fat&rat', 'portuguese') was sent, and a
\* textSearch() was made without a language and one with the language ''
C23_Witness ==
  /\ \E e \in Sent :
       Req(e).url = <<"BASE", "/", "public", "/", "products", "?", "price", "$",
                      "portuguese", ":", "tsquery", "=", "fat", "%26", "rat">>
  /\ \E ik \in BuilderCalls :
       /\ hist[ik[1]][ik[2]].m = "textSearch"
       /\ hist[ik[1]][ik[2]].arg[3] \in {Undefined, Str(<<>>)}
       /\ hist[ik[1]][ik[2]].ops = << <<"price", ":", "tsquery", "=", "fat", "%26", "rat">> >>

\* the directive key of order() and of groupBy()
ListKey(m) == IF m = "order" THEN <<"_order">> ELSE <<"_groupby">>

\* C24 as stated: order() and groupBy() append one clause, the key, "=" and
\* the fields as given joined by literal commas.
C24_OrderGroupByLiteral ==
  /\ ClausesAppended
  /\ \A ik \in BuilderCalls :
       LET c == hist[ik[1]][ik[2]]
       IN  c.m \in {"order", "groupBy"} =>
             /\ c.ops = << ListKey(c.m) \o <<"=">> \o Join(c.arg[1], <<",">>) >>
             /\ c.fns = <<>>

\* C24 as amended: order() and groupBy() append one clause, the key, "=" and
\* the percent-encoding of the fields as given joined by ",": a leading "-"
\* stays, nothing is put before a field without one, and each joining comma
\* stands in the clause as %2C.
C24_OrderGroupByEscaped ==
  /\ ClausesAppended
  /\ \A ik \in BuilderCalls :
       LET c == hist[ik[1]][ik[2]]
       IN  c.m \in {"order", "groupBy"} =>
             /\ c.ops = << ListKey(c.m) \o <<"=">> \o Escape(Join(c.arg[1], <<",">>)) >>
             /\ c.fns = <<>>

\* order('-price', 'name') was sent as ?_order=-price%2Cname, and a
\* groupBy() was made
C24_Witness ==
  /\ \E e \in Sent :
       Req(e).url = <<"BASE", "/", "public", "/", "products", "?", "_order", "=",
                      "-", "price", "%2C", "name">>
  /\ \E ik \in BuilderCalls : hist[ik[1]][ik[2]].m = "groupBy"

C26_DecodeFailureUnwrapped ==
  \A e \in DOMAIN execs :
    execs[e].state = "rejected" =>
      IF execs[e].decode # "none"
      THEN execs[e].error = <<"decode error">>
      ELSE /\ Len(execs[e].error) >= 2
           /\ execs[e].error[1] = "Failed to make API request: "

\* a get response with an ok status whose JSON decoding failed
C26_Witness ==
  \E e \in DOMAIN execs :
    /\ execs[e].state = "rejected"
    /\ execs[e].decode = "json"
    /\ execs[e].error = <<"decode error">>

\* a clause of the form _renderer=...
IsRendererClause(c) == Len(c) >= 2 /\ c[1] = "_renderer" /\ c[2] = "="

\* the render mode the server is told: the value of the last _renderer
\* clause of a clause list, "json" when it holds none
ToldMode(ops) ==
  LET R == { k \in DOMAIN ops : IsRendererClause(ops[k]) }
  IN  IF R = {} THEN <<"json">>
      ELSE LET last == CHOOSE k \in R : \A j \in R : j <= k
           IN  SubSeq(ops[last], 3, Len(ops[last]))

\* C27 as stated: in every state the render mode of an instance is the value
\* of the last _renderer clause in its clauses, "json" when there is none.
C27_RenderModeIsLastClause ==
  \A i \in DOMAIN qs : <<qs[i].rendererArg>> = ToldMode(qs[i].chainedOperations)

\* C27 as amended: in every state the render mode of an instance is the
\* argument of the last renderer() call made on it, "json" when none was
\* made; each renderer() call appends one clause _renderer=<mode>, and the
\* clauses of earlier calls stay.
C27_RenderModeIsLastRendererCall ==
  /\ ClausesAppended
  /\ \A i \in DOMAIN qs : qs[i].rendererArg = RenderMode(hist[i])
  /\ \A ik \in BuilderCalls :
       LET c == hist[ik[1]][ik[2]]
       IN  c.m = "renderer" => c.ops = << <<"_renderer", "=", c.arg>> >>

\* renderer('xml') then renderer('json'): both clauses are in the list and
\* the mode is json
C27_Witness ==
  \E i \in DOMAIN qs :
    /\ Methods(hist[i]) = <<"renderer", "renderer">>
    /\ qs[i].chainedOperations =
         << <<"_renderer", "=", "xml">>, <<"_renderer", "=", "json">> >>
    /\ qs[i].rendererArg = "json"

=============================================================================
